---- MODULE Spec2Model ----
(***************************************************************************)
(* Hybrid profile-change arbitration of the supplier-registration backend. *)
(*                                                                         *)
(*   backend/app/core/profile_permissions.py   field classification,       *)
(*                                             separation and validation   *)
(*   backend/app/api/routes/profile_changes.py submit_profile_change_request*)
(*                                             review_profile_change and   *)
(*                                             the pending and history     *)
(*                                             queries                     *)
(*   backend/app/db/supabase.py                update_supplier             *)
(*                                                                         *)
(* The two handlers are modelled as processes that take one step per call  *)
(* to the record store, so that concurrent requests interleave between     *)
(* store calls exactly as the handlers' awaits and blocking calls allow.   *)
(* The database functions cancel_pending_profile_changes,                  *)
(* apply_profile_changes and get_profile_change_history are SQL that is    *)
(* not part of the Python sources; they are modelled from their documented *)
(* contract.                                                               *)
(***************************************************************************)
EXTENDS Integers, FiniteSets, Sequences, TLC

\* ------------------------------------------------------------------------
\* Bounds of the model
\* ------------------------------------------------------------------------

\* Largest number of handler executions (submissions and reviews together)
\* in one behaviour of Spec, SpecSeq and SpecSparse.
MaxOps == 3

\* Largest number of keys of a change-set handed to the pure validation
\* functions in SpecPure.
MaxKeys == 2

\* ------------------------------------------------------------------------
\* Static classification table (profile_permissions.py)
\* ------------------------------------------------------------------------

DIRECT == "direct"
APPROVAL_REQUIRED == "approval_required"
READ_ONLY == "read_only"

FieldPermissionLevel == {DIRECT, APPROVAL_REQUIRED, READ_ONLY}

DIRECT_UPDATE_FIELDS ==
    {"contact_person_name", "contact_person_title", "phone", "website",
     "street_address", "city", "state_province", "postal_code", "country"}

APPROVAL_REQUIRED_FIELDS ==
    {"company_name", "email", "tax_id", "registration_number",
     "business_category", "years_in_business"}

\* Variant of the read-only set that also lists the e-mail address.
READ_ONLY_FIELDS_with_email ==
    {"id", "status", "activity_status", "created_at", "updated_at",
     "submitted_at", "reviewed_at", "reviewed_by", "admin_notes",
     "rejection_reason", "info_request_message", "email"}

READ_ONLY_FIELDS ==
    {"id", "status", "activity_status", "created_at", "updated_at",
     "submitted_at", "reviewed_at", "reviewed_by", "admin_notes",
     "rejection_reason", "info_request_message"}

\* Field names that appear in none of the three sets.
UnknownFields == {"nickname", "is_admin"}

\* Every field name a change-set of the model may use as a key.
FieldNames ==
    DIRECT_UPDATE_FIELDS \cup APPROVAL_REQUIRED_FIELDS \cup READ_ONLY_FIELDS
        \cup UnknownFields

\* Values a vendor may submit for a field, and the value every column of a
\* supplier row holds initially.
NewValues == {"new1", "new2"}
InitialValue == "old"

NULL == "NULL"

\* The empty dictionary.
EmptyDict == [f \in {} |-> InitialValue]

\* d restricted to the keys in S.
Restrict(d, S) == [f \in S |-> d[f]]

\* ------------------------------------------------------------------------
\* Field Classifier and Change Separator (profile_permissions.py)
\* ------------------------------------------------------------------------

\* Fail-open variant of the classifier: an unlisted name is DIRECT.
get_field_permission_open(field_name) ==
    IF field_name \in APPROVAL_REQUIRED_FIELDS THEN APPROVAL_REQUIRED
    ELSE IF field_name \in READ_ONLY_FIELDS THEN READ_ONLY
    ELSE DIRECT

get_field_permission(field_name) ==
    IF field_name \in DIRECT_UPDATE_FIELDS THEN DIRECT
    ELSE IF field_name \in APPROVAL_REQUIRED_FIELDS THEN APPROVAL_REQUIRED
    ELSE READ_ONLY

\* Variant of the separator that routes approval-required keys to the
\* direct part.
separate_changes_all_direct(requested_changes) ==
    [direct |->
        Restrict(requested_changes,
                 {f \in DOMAIN requested_changes :
                     get_field_permission(f) \in {DIRECT, APPROVAL_REQUIRED}}),
     approval_required |-> EmptyDict,
     rejected |->
        Restrict(requested_changes,
                 {f \in DOMAIN requested_changes :
                     get_field_permission(f) = READ_ONLY})]

\* Variant of the separator that drops the keys that are not DIRECT or
\* APPROVAL_REQUIRED instead of collecting them in "rejected".
separate_changes_drop_rejected(requested_changes) ==
    [direct |->
        Restrict(requested_changes,
                 {f \in DOMAIN requested_changes :
                     get_field_permission(f) = DIRECT}),
     approval_required |->
        Restrict(requested_changes,
                 {f \in DOMAIN requested_changes :
                     get_field_permission(f) = APPROVAL_REQUIRED}),
     rejected |-> EmptyDict]

separate_changes_by_permission(requested_changes) ==
    [direct |->
        Restrict(requested_changes,
                 {f \in DOMAIN requested_changes :
                     get_field_permission(f) = DIRECT}),
     approval_required |->
        Restrict(requested_changes,
                 {f \in DOMAIN requested_changes :
                     get_field_permission(f) = APPROVAL_REQUIRED}),
     rejected |->
        Restrict(requested_changes,
                 {f \in DOMAIN requested_changes :
                     get_field_permission(f) \notin {DIRECT, APPROVAL_REQUIRED}})]

\* The two error messages of validate_field_permissions.  The read-only
\* message carries the rejected keys (", ".join(...)); they are kept as the
\* set of names.
ReadOnlyFieldError == "Cannot modify read-only fields"
EmptySubmissionError == "No valid fields to update"
NoError == ""

\* Variant of the validation without the empty-submission test.
validate_field_permissions_no_empty_check(requested_changes) ==
    LET categorized == separate_changes_by_permission(requested_changes)
    IN  IF DOMAIN categorized.rejected # {}
        THEN [is_valid |-> FALSE, error_msg |-> ReadOnlyFieldError,
              fields |-> DOMAIN categorized.rejected,
              categorized |-> categorized]
        ELSE [is_valid |-> TRUE, error_msg |-> NoError,
              fields |-> {}, categorized |-> categorized]

\* Variant of the validation that lets a change-set pass when it has valid
\* keys next to its rejected ones.
validate_field_permissions_partial(requested_changes) ==
    LET categorized == separate_changes_by_permission(requested_changes)
    IN  IF DOMAIN categorized.direct = {}
           /\ DOMAIN categorized.approval_required = {}
        THEN IF DOMAIN categorized.rejected # {}
             THEN [is_valid |-> FALSE, error_msg |-> ReadOnlyFieldError,
                   fields |-> DOMAIN categorized.rejected,
                   categorized |-> categorized]
             ELSE [is_valid |-> FALSE, error_msg |-> EmptySubmissionError,
                   fields |-> {}, categorized |-> categorized]
        ELSE [is_valid |-> TRUE, error_msg |-> NoError,
              fields |-> {}, categorized |-> categorized]

validate_field_permissions(requested_changes) ==
    LET categorized == separate_changes_by_permission(requested_changes)
    IN  IF DOMAIN categorized.rejected # {}
        THEN [is_valid |-> FALSE, error_msg |-> ReadOnlyFieldError,
              fields |-> DOMAIN categorized.rejected,
              categorized |-> categorized]
        ELSE IF DOMAIN categorized.direct = {}
                /\ DOMAIN categorized.approval_required = {}
        THEN [is_valid |-> FALSE, error_msg |-> EmptySubmissionError,
              fields |-> {}, categorized |-> categorized]
        ELSE [is_valid |-> TRUE, error_msg |-> NoError,
              fields |-> {}, categorized |-> categorized]

\* ------------------------------------------------------------------------
\* State
\* ------------------------------------------------------------------------

\* Suppliers (vendors) with a row in the suppliers table, administrators,
\* and the concurrent executions of the two handlers.  An administrator's
\* execution of review_profile_change is named after the administrator.
SupplierIds == {"v1", "v2"}
SubmitProcs == {"s1", "s2"}
ReviewProcs == {"a1", "a2"}

\* Columns of a suppliers row that the model carries: one DIRECT column, two
\* APPROVAL_REQUIRED columns and one READ_ONLY column.
Columns == {"phone", "company_name", "business_category", "status"}

\* The approval-required columns among them.
ApprovalFieldsCarried == Columns \cap APPROVAL_REQUIRED_FIELDS

\* Review notes an administrator gives (review_notes is Optional): a1
\* writes notes, a2 gives none.
ReviewNotesOf(p) == IF p = "a1" THEN "note" ELSE NULL

\* Timestamp written by datetime.now(timezone.utc).isoformat().
Now == "now"

\* Change-sets submitted by vendors in Spec and SpecSeq: a direct-only one,
\* an approval-only one, one with a direct and two approval-required keys,
\* one that mixes valid keys with a read-only key, and the empty one.  The
\* second vendor submits one approval-only change-set.
SubmitMenu ==
    { ("phone" :> "new1"),
      ("company_name" :> "new1"),
      ("phone" :> "new1") @@ ("company_name" :> "new2")
          @@ ("business_category" :> "new2"),
      ("phone" :> "new1") @@ ("company_name" :> "new1")
          @@ ("status" :> "new1"),
      EmptyDict }

SubmitMenuOf(v) ==
    IF v = "v1" THEN SubmitMenu ELSE { ("company_name" :> "new1") }

\* The sets of at most n field names.
RECURSIVE KeySets(_)
KeySets(n) ==
    IF n = 0 THEN {{}}
    ELSE LET prev == KeySets(n - 1)
         IN  prev \cup {S \cup {f} : S \in prev, f \in FieldNames}

\* Change-sets handed to the validation functions in SpecPure: every
\* dictionary of at most MaxKeys keys over all field names.
PureChangeSets == UNION { [S -> NewValues] : S \in KeySets(MaxKeys) }

VARIABLES
    suppliers,   \* suppliers table: supplier id -> row
    requests,    \* profile_change_requests table in creation order; the id
                 \* of a row is its index
    sub,         \* locals of each execution of submit_profile_change_request
    rev,         \* locals of each execution of review_profile_change
    applied,     \* history: ids whose apply_profile_changes call succeeded
    started      \* history: number of handler executions started so far

vars == <<suppliers, requests, sub, rev, applied, started>>

RequestIds == 1..Len(requests)

EmptyCategorized ==
    [direct |-> EmptyDict, approval_required |-> EmptyDict,
     rejected |-> EmptyDict]

\* No response sent yet.
NoResponse ==
    [status_code |-> 0, detail |-> NoError, fields |-> {},
     direct_updates_applied |-> 0, approval_request_created |-> FALSE,
     change_request_id |-> 0, direct_fields |-> {},
     approval_required_fields |-> {}]

\* HTTPException(status_code, detail).
ErrorResponse(code, detail, fields) ==
    [NoResponse EXCEPT !.status_code = code, !.detail = detail,
                       !.fields = fields]

HTTP_200_OK == 200
HTTP_400_BAD_REQUEST == 400
HTTP_500_INTERNAL_SERVER_ERROR == 500

ProcessFailed == "Failed to process profile changes"
ReviewFailed == "Failed to review profile change"
ApplyFailed == "Failed to apply profile changes"
InvalidStateError == "Cannot review request with status"

IdleSubmit ==
    [pc |-> "idle", supplier_id |-> NULL, requested_changes |-> EmptyDict,
     categorized |-> EmptyCategorized, current_supplier |-> EmptyDict,
     direct_updates_applied |-> 0, change_request_id |-> 0,
     email |-> NULL, response |-> NoResponse]

IdleReview ==
    [pc |-> "idle", request_id |-> 0, action |-> NULL,
     review_notes |-> NULL, apply_error |-> NULL, response |-> NoResponse]

Init ==
    /\ suppliers = [v \in SupplierIds |-> [c \in Columns |-> InitialValue]]
    /\ requests = <<>>
    /\ sub = [p \in SubmitProcs |-> IdleSubmit]
    /\ rev = [p \in ReviewProcs |-> IdleReview]
    /\ applied = {}
    /\ started = 0

\* An execution slot is free when no handler runs in it.  A handler that
\* has finished stays in "done" with its response until the response is
\* handed to the client.
Free(pc) == pc = "idle"

\* A finished handler returns before any other handler takes a step:
\* returning touches no shared state, so this order loses no behaviour of
\* the tables.
NoneDone ==
    /\ \A p \in SubmitProcs : sub[p].pc # "done"
    /\ \A p \in ReviewProcs : rev[p].pc # "done"

\* ------------------------------------------------------------------------
\* Record store
\* ------------------------------------------------------------------------

\* Variant of the update that resets a column to its initial value when the
\* column already holds the value to write.
Overwrite_toggle(row, data) ==
    [c \in DOMAIN row |->
        IF c \in DOMAIN data
        THEN IF row[c] = data[c] THEN InitialValue ELSE data[c]
        ELSE row[c]]

\* table("suppliers").update(data).eq("id", supplier_id): the columns named
\* in data take the new values, every other column keeps its value.
Overwrite(row, data) ==
    [c \in DOMAIN row |-> IF c \in DOMAIN data THEN data[c] ELSE row[c]]

\* Variant of update_supplier without the filter on the id.
update_supplier_every_row(table, supplier_id, data) ==
    [v \in DOMAIN table |-> Overwrite(table[v], data)]

\* db.update_supplier(supplier_id, data)
update_supplier(table, supplier_id, data) ==
    [table EXCEPT ![supplier_id] = Overwrite(@, data)]

\* rpc cancel_pending_profile_changes(p_supplier_id): every PENDING request
\* of the supplier becomes CANCELLED; the rows stay in the table.
cancel_pending_profile_changes(table, p_supplier_id) ==
    [i \in DOMAIN table |->
        IF table[i].supplier_id = p_supplier_id /\ table[i].status = "PENDING"
        THEN [table[i] EXCEPT !.status = "CANCELLED"]
        ELSE table[i]]

\* rpc apply_profile_changes(p_request_id) raises "Can only apply approved
\* changes" unless the request is APPROVED.
CanApply(row) == row.status = "APPROVED"

\* rpc apply_profile_changes(p_request_id), the write: every key of the
\* request's requested_changes is written onto the supplier's live row.
apply_profile_changes(table, row) ==
    [table EXCEPT ![row.supplier_id] = Overwrite(@, row.requested_changes)]

\* ------------------------------------------------------------------------
\* submit_profile_change_request (profile_changes.py, lines 49-232)
\* ------------------------------------------------------------------------

\* Variant of the response that lists every submitted key as a direct
\* field.
SuccessResponse_all_direct(l) ==
    [NoResponse EXCEPT
        !.status_code = HTTP_200_OK,
        !.direct_updates_applied = l.direct_updates_applied,
        !.approval_request_created = (l.change_request_id # 0),
        !.change_request_id = l.change_request_id,
        !.direct_fields = DOMAIN l.requested_changes,
        !.approval_required_fields = DOMAIN l.categorized.approval_required]

\* The ProfileUpdateResponse built at the end of the handler.
SuccessResponse(l) ==
    [NoResponse EXCEPT
        !.status_code = HTTP_200_OK,
        !.direct_updates_applied = l.direct_updates_applied,
        !.approval_request_created = (l.change_request_id # 0),
        !.change_request_id = l.change_request_id,
        !.direct_fields = DOMAIN l.categorized.direct,
        !.approval_required_fields = DOMAIN l.categorized.approval_required]

\* Lines 64-76: the handler starts for vendor v with change-set C and
\* validates it; an invalid change-set ends the handler with a 400 before
\* any call to the store.
SubmitValidate(p, v, C) ==
    /\ NoneDone
    /\ Free(sub[p].pc)
    /\ LET r == validate_field_permissions(C)
           l == [IdleSubmit EXCEPT !.supplier_id = v,
                                   !.requested_changes = C,
                                   !.categorized = r.categorized]
       IN  sub' = [sub EXCEPT ![p] =
              IF r.is_valid
              THEN [l EXCEPT !.pc = "read"]
              ELSE [l EXCEPT !.pc = "done",
                             !.response =
                                 ErrorResponse(HTTP_400_BAD_REQUEST,
                                               r.error_msg, r.fields)]]
    /\ started < MaxOps
    /\ started' = started + 1
    /\ UNCHANGED <<suppliers, requests, rev, applied>>

\* Lines 78-90: current_supplier is read.  The vendor was loaded by
\* get_current_vendor and suppliers are never deleted here, so the 404
\* branch is not taken.
SubmitRead(p) ==
    /\ NoneDone
    /\ sub[p].pc = "read"
    /\ sub' = [sub EXCEPT ![p].current_supplier = suppliers[sub[p].supplier_id],
                          ![p].pc = IF DOMAIN sub[p].categorized.direct # {}
                                    THEN "direct" ELSE "cancel"]
    /\ UNCHANGED <<suppliers, requests, rev, applied, started>>

\* Variant of the direct step that writes the whole change-set to the live
\* row.
SubmitDirect_writes_all(p) ==
    /\ NoneDone
    /\ sub[p].pc = "direct"
    /\ suppliers' = update_supplier(suppliers, sub[p].supplier_id,
                                    sub[p].requested_changes)
    /\ LET l == [sub[p] EXCEPT !.direct_updates_applied =
                                   Cardinality(DOMAIN sub[p].categorized.direct)]
       IN  sub' = [sub EXCEPT ![p] =
                  IF DOMAIN l.categorized.approval_required # {}
                  THEN [l EXCEPT !.pc = "cancel"]
                  ELSE [l EXCEPT !.pc = "done",
                                 !.response = SuccessResponse(l)]]
    /\ UNCHANGED <<requests, rev, applied, started>>

\* Variant of the direct step that always goes on to the cancel and the
\* insert.
SubmitDirect_always_requests(p) ==
    /\ NoneDone
    /\ sub[p].pc = "direct"
    /\ suppliers' = update_supplier(suppliers, sub[p].supplier_id,
                                    sub[p].categorized.direct)
    /\ sub' = [sub EXCEPT
                  ![p].direct_updates_applied =
                      Cardinality(DOMAIN sub[p].categorized.direct),
                  ![p].pc = "cancel"]
    /\ UNCHANGED <<requests, rev, applied, started>>

\* Lines 92-111: the direct part is written to the live row.  A submission
\* without approval-required part then returns (lines 206-224).
SubmitDirect(p) ==
    /\ NoneDone
    /\ sub[p].pc = "direct"
    /\ suppliers' = update_supplier(suppliers, sub[p].supplier_id,
                                    sub[p].categorized.direct)
    /\ LET l == [sub[p] EXCEPT !.direct_updates_applied =
                                   Cardinality(DOMAIN sub[p].categorized.direct)]
       IN  sub' = [sub EXCEPT ![p] =
                  IF DOMAIN l.categorized.approval_required # {}
                  THEN [l EXCEPT !.pc = "cancel"]
                  ELSE [l EXCEPT !.pc = "done",
                                 !.response = SuccessResponse(l)]]
    /\ UNCHANGED <<requests, rev, applied, started>>

\* Variant of the cancel step that goes on to the insert without calling
\* cancel_pending_profile_changes.
SubmitCancel_skipped(p) ==
    /\ NoneDone
    /\ sub[p].pc = "cancel"
    /\ sub' = [sub EXCEPT ![p].pc = "insert"]
    /\ UNCHANGED <<suppliers, requests, rev, applied, started>>

\* Lines 113-124: the snapshot is built from current_supplier (it is kept in
\* the locals until the insert) and the vendor's pending requests are
\* cancelled.
SubmitCancel(p) ==
    /\ NoneDone
    /\ sub[p].pc = "cancel"
    /\ requests' = cancel_pending_profile_changes(requests, sub[p].supplier_id)
    /\ sub' = [sub EXCEPT ![p].pc = "insert"]
    /\ UNCHANGED <<suppliers, rev, applied, started>>

\* Lines 116-119: current_values holds the snapshot value of every
\* approval-required key that is a key of current_supplier.
SnapshotValues(approval_required, current_supplier) ==
    Restrict(current_supplier,
             DOMAIN approval_required \cap DOMAIN current_supplier)

\* Lines 126-149: the new request is inserted with status PENDING and read
\* back; its id is the next index of the table.
SubmitInsert(p) ==
    /\ NoneDone
    /\ sub[p].pc = "insert"
    /\ requests' = Append(requests,
          [supplier_id |-> sub[p].supplier_id,
           requested_changes |-> sub[p].categorized.approval_required,
           current_values |->
               SnapshotValues(sub[p].categorized.approval_required,
                              sub[p].current_supplier),
           status |-> "PENDING",
           reviewed_by |-> NULL,
           reviewed_at |-> NULL,
           review_notes |-> NULL])
    /\ sub' = [sub EXCEPT ![p].change_request_id = Len(requests) + 1,
                          ![p].pc = "notify"]
    /\ UNCHANGED <<suppliers, rev, applied, started>>

\* Outcomes of the administrator notification.
EmailOutcomes == {"sent", "failed", "no_admins"}

\* Variant of the notification step in which an exception of the
\* notification ends the handler with a 500.
SubmitNotify_raises(p, outcome) ==
    /\ NoneDone
    /\ sub[p].pc = "notify"
    /\ LET l == [sub[p] EXCEPT !.email = outcome]
       IN  sub' = [sub EXCEPT ![p] =
                      [l EXCEPT !.pc = "done",
                                !.response =
                                    IF outcome = "failed"
                                    THEN ErrorResponse(
                                             HTTP_500_INTERNAL_SERVER_ERROR,
                                             ProcessFailed, {})
                                    ELSE SuccessResponse(l)]]
    /\ UNCHANGED <<suppliers, requests, rev, applied, started>>

\* Lines 167-224: the administrators are notified; an exception of the
\* notification is caught and printed, and the handler returns its
\* response.
SubmitNotify(p, outcome) ==
    /\ NoneDone
    /\ sub[p].pc = "notify"
    /\ LET l == [sub[p] EXCEPT !.email = outcome]
       IN  sub' = [sub EXCEPT ![p] =
                      [l EXCEPT !.pc = "done",
                                !.response = SuccessResponse(l)]]
    /\ UNCHANGED <<suppliers, requests, rev, applied, started>>

\* Lines 228-232: a store call of the handler raises; the handler answers
\* 500 and makes no further call.
SubmitStoreFails(p) ==
    /\ NoneDone
    /\ sub[p].pc \in {"read", "direct", "cancel", "insert"}
    /\ sub' = [sub EXCEPT ![p].pc = "done",
                          ![p].response =
                              ErrorResponse(HTTP_500_INTERNAL_SERVER_ERROR,
                                            ProcessFailed, {})]
    /\ UNCHANGED <<suppliers, requests, rev, applied, started>>

\* ------------------------------------------------------------------------
\* review_profile_change (profile_changes.py, lines 376-489)
\* ------------------------------------------------------------------------

ReviewActions == {"approve", "reject"}

\* Variant of the status test that only refuses cancelled requests.
Reviewable_not_cancelled(status) == status # "CANCELLED"

\* Line 402: only a PENDING request may be reviewed.
Reviewable(status) == status = "PENDING"

\* Lines 389-406: administrator p starts a review of the existing request
\* rid and reads it; a request that is not PENDING is answered with 400 and
\* the handler makes no other call.
ReviewRead(p, rid, action, notes) ==
    /\ NoneDone
    /\ Free(rev[p].pc)
    /\ rid \in RequestIds
    /\ LET l == [IdleReview EXCEPT !.request_id = rid, !.action = action,
                                   !.review_notes = notes]
       IN  rev' = [rev EXCEPT ![p] =
              IF ~Reviewable(requests[rid].status)
              THEN [l EXCEPT !.pc = "done",
                             !.response =
                                 ErrorResponse(HTTP_400_BAD_REQUEST,
                                               InvalidStateError, {})]
              ELSE [l EXCEPT !.pc = "update"]]
    /\ started < MaxOps
    /\ started' = started + 1
    /\ UNCHANGED <<suppliers, requests, sub, applied>>

\* Variant of the new status that is APPROVED for either action.
NewStatus_approved(action) == "APPROVED"

\* Line 409
NewStatus(action) == IF action = "approve" THEN "APPROVED" ELSE "REJECTED"

\* Lines 408-429: the status, the reviewer, the review time and the notes
\* are written to the row with this id, whatever its status is by now, and
\* the row is read back.  A rejection then returns (lines 451-481).
ReviewUpdate(p) ==
    /\ NoneDone
    /\ rev[p].pc = "update"
    /\ requests' = [requests EXCEPT ![rev[p].request_id] =
          [@ EXCEPT !.status = NewStatus(rev[p].action),
                    !.reviewed_by = p,
                    !.reviewed_at = Now,
                    !.review_notes = rev[p].review_notes]]
    /\ rev' = [rev EXCEPT ![p] =
          IF rev[p].action = "approve"
          THEN [@ EXCEPT !.pc = "apply"]
          ELSE [@ EXCEPT !.pc = "done",
                         !.response = [NoResponse EXCEPT
                                          !.status_code = HTTP_200_OK]]]
    /\ UNCHANGED <<suppliers, sub, applied, started>>

\* Lines 408-429 when the update or the read raises: 500, nothing written.
ReviewStoreFails(p) ==
    /\ NoneDone
    /\ rev[p].pc = "update"
    /\ rev' = [rev EXCEPT ![p].pc = "done",
                          ![p].response =
                              ErrorResponse(HTTP_500_INTERNAL_SERVER_ERROR,
                                            ReviewFailed, {})]
    /\ UNCHANGED <<suppliers, requests, sub, applied, started>>

NotApprovedError == "Can only apply approved changes"
WriteFailed == "write failed"

\* Variant of the apply step that answers 200 without calling
\* apply_profile_changes.
ReviewApply_not_called(p) ==
    /\ NoneDone
    /\ rev[p].pc = "apply"
    /\ CanApply(requests[rev[p].request_id])
    /\ applied' = applied \cup {rev[p].request_id}
    /\ rev' = [rev EXCEPT ![p].pc = "done",
                          ![p].response = [NoResponse EXCEPT
                                              !.status_code = HTTP_200_OK]]
    /\ UNCHANGED <<suppliers, requests, sub, started>>

\* Lines 431-436, apply succeeds: the request is APPROVED and all its
\* requested_changes are written to the live row in one database call.
ReviewApply(p) ==
    /\ NoneDone
    /\ rev[p].pc = "apply"
    /\ CanApply(requests[rev[p].request_id])
    /\ suppliers' = apply_profile_changes(suppliers,
                                          requests[rev[p].request_id])
    /\ applied' = applied \cup {rev[p].request_id}
    /\ rev' = [rev EXCEPT ![p].pc = "done",
                          ![p].response = [NoResponse EXCEPT
                                              !.status_code = HTTP_200_OK]]
    /\ UNCHANGED <<requests, sub, started>>

\* Lines 431-437, apply raises because the request is no longer APPROVED:
\* nothing is written and the handler goes on to its rollback.
ReviewApplyNotApproved(p) ==
    /\ NoneDone
    /\ rev[p].pc = "apply"
    /\ ~CanApply(requests[rev[p].request_id])
    /\ rev' = [rev EXCEPT ![p].pc = "rollback",
                          ![p].apply_error = NotApprovedError]
    /\ UNCHANGED <<suppliers, requests, sub, applied, started>>

\* Variant of the failing apply step in which the company name is written
\* before the call raises.
ReviewApplyFails_partial(p) ==
    /\ NoneDone
    /\ rev[p].pc = "apply"
    /\ CanApply(requests[rev[p].request_id])
    /\ LET r == requests[rev[p].request_id]
       IN  suppliers' = update_supplier(suppliers, r.supplier_id,
                 Restrict(r.requested_changes,
                          DOMAIN r.requested_changes \cap {"company_name"}))
    /\ rev' = [rev EXCEPT ![p].pc = "rollback",
                          ![p].apply_error = WriteFailed]
    /\ UNCHANGED <<requests, sub, applied, started>>

\* Lines 431-437, apply raises because the write to the live row fails: the
\* function writes only when the request is APPROVED, and it is one
\* transaction, so nothing is written.
ReviewApplyFails(p) ==
    /\ NoneDone
    /\ rev[p].pc = "apply"
    /\ CanApply(requests[rev[p].request_id])
    /\ rev' = [rev EXCEPT ![p].pc = "rollback",
                          ![p].apply_error = WriteFailed]
    /\ UNCHANGED <<suppliers, requests, sub, applied, started>>

\* Variant of the rollback that sets the status back and keeps the review
\* columns.
ReviewRollback_keeps_review(p) ==
    /\ NoneDone
    /\ rev[p].pc = "rollback"
    /\ requests' = [requests EXCEPT ![rev[p].request_id].status = "PENDING"]
    /\ rev' = [rev EXCEPT ![p].pc = "done",
                          ![p].response =
                              ErrorResponse(HTTP_500_INTERNAL_SERVER_ERROR,
                                            ApplyFailed, {})]
    /\ UNCHANGED <<suppliers, sub, applied, started>>

\* Lines 438-449: the row with this id is set back to PENDING, whatever its
\* status is by now, its review columns are cleared and the handler answers
\* 500.
ReviewRollback(p) ==
    /\ NoneDone
    /\ rev[p].pc = "rollback"
    /\ requests' = [requests EXCEPT ![rev[p].request_id] =
          [@ EXCEPT !.status = "PENDING",
                    !.reviewed_by = NULL,
                    !.reviewed_at = NULL,
                    !.review_notes = NULL]]
    /\ rev' = [rev EXCEPT ![p].pc = "done",
                          ![p].response =
                              ErrorResponse(HTTP_500_INTERNAL_SERVER_ERROR,
                                            ApplyFailed, {})]
    /\ UNCHANGED <<suppliers, sub, applied, started>>

\* Lines 439-444 and 485-489: the rollback update itself raises; the
\* exception leaves the handler through its outer except clause and the row
\* keeps the status the failed update could not change.
ReviewRollbackFails(p) ==
    /\ NoneDone
    /\ rev[p].pc = "rollback"
    /\ rev' = [rev EXCEPT ![p].pc = "done",
                          ![p].response =
                              ErrorResponse(HTTP_500_INTERNAL_SERVER_ERROR,
                                            ReviewFailed, {})]
    /\ UNCHANGED <<suppliers, requests, sub, applied, started>>

\* ------------------------------------------------------------------------
\* Queries (profile_changes.py, lines 235-286 and 492-517)
\* ------------------------------------------------------------------------

\* The ids of the rows of a table in the order of their creation; created_at
\* grows with the id.
IdsByCreation(table) == [i \in 1..Len(table) |-> i]

\* .order("created_at", desc=True)
OrderDesc(ids) == [k \in 1..Len(ids) |-> ids[Len(ids) + 1 - k]]

\* .limit(n)
Limit(ids, n) == SubSeq(ids, 1, IF n < Len(ids) THEN n ELSE Len(ids))

\* Variant of the pending query without the filter on the status.
PendingQuery_any_status(table, supplier_id) ==
    Limit(OrderDesc(SelectSeq(IdsByCreation(table),
              LAMBDA i : table[i].supplier_id = supplier_id)), 1)

\* Lines 269-275: result.data of the query for the supplier's PENDING rows,
\* newest first, limited to one row.
PendingQuery(table, supplier_id) ==
    Limit(OrderDesc(SelectSeq(IdsByCreation(table),
              LAMBDA i : /\ table[i].supplier_id = supplier_id
                         /\ table[i].status = "PENDING")), 1)

\* Lines 277-280: the handler returns the first row of result.data, or None
\* (here 0) when there is none.
get_vendor_pending_request(table, supplier_id) ==
    LET data == PendingQuery(table, supplier_id)
    IN  IF data # << >> THEN data[1] ELSE 0

\* Query(50, ge=1, le=100): the default of the limit parameter of the two
\* history handlers.
DefaultLimit == 50

\* Limits given to the history handlers: the smallest one allowed and the
\* default.
HistoryLimits == {1, DefaultLimit}

\* rpc get_profile_change_history(p_supplier_id, p_limit): the requests of
\* the supplier, whatever their status, newest first, at most p_limit of
\* them.
get_profile_change_history(table, p_supplier_id, p_limit) ==
    Limit(OrderDesc(SelectSeq(IdsByCreation(table),
              LAMBDA i : table[i].supplier_id = p_supplier_id)), p_limit)

\* Variant of the vendor's history handler that always passes the default
\* limit.
get_vendor_change_requests_default_limit(table, supplier_id, limit) ==
    get_profile_change_history(table, supplier_id, DefaultLimit)

\* Lines 243-253: the vendor's history handler passes its supplier id and
\* its limit to the database function and returns the rows it gets, or the
\* empty list.
get_vendor_change_requests(table, supplier_id, limit) ==
    LET data == get_profile_change_history(table, supplier_id, limit)
    IN  IF data = << >> THEN << >> ELSE data

\* Lines 501-511: the administrators' history handler does the same for the
\* supplier id of its path.
get_supplier_change_history(table, supplier_id, limit) ==
    LET data == get_profile_change_history(table, supplier_id, limit)
    IN  IF data = << >> THEN << >> ELSE data

\* ------------------------------------------------------------------------
\* Specifications
\* ------------------------------------------------------------------------

\* The response of a finished handler goes to the client and the execution
\* slot becomes free.
SubmitReturn(p) ==
    /\ sub[p].pc = "done"
    /\ sub' = [sub EXCEPT ![p] = IdleSubmit]
    /\ UNCHANGED <<suppliers, requests, rev, applied, started>>

ReviewReturn(p) ==
    /\ rev[p].pc = "done"
    /\ rev' = [rev EXCEPT ![p] = IdleReview]
    /\ UNCHANGED <<suppliers, requests, sub, applied, started>>

Return ==
    \/ \E p \in SubmitProcs : SubmitReturn(p)
    \/ \E p \in ReviewProcs : ReviewReturn(p)

\* Steps of a running handler, except the refusal of apply_profile_changes:
\* that one needs another handler to change the status between the status
\* update and the apply of a review.
Continue ==
    \/ \E p \in SubmitProcs : SubmitRead(p)
    \/ \E p \in SubmitProcs : SubmitDirect(p)
    \/ \E p \in SubmitProcs : SubmitCancel(p)
    \/ \E p \in SubmitProcs : SubmitInsert(p)
    \/ \E p \in SubmitProcs, o \in EmailOutcomes : SubmitNotify(p, o)
    \/ \E p \in SubmitProcs : SubmitStoreFails(p)
    \/ \E p \in ReviewProcs : ReviewUpdate(p)
    \/ \E p \in ReviewProcs : ReviewStoreFails(p)
    \/ \E p \in ReviewProcs : ReviewApply(p)
    \/ \E p \in ReviewProcs : ReviewApplyFails(p)
    \/ \E p \in ReviewProcs : ReviewRollback(p)
    \/ \E p \in ReviewProcs : ReviewRollbackFails(p)

\* Concurrent requests: handlers start at any time and interleave between
\* their store calls.
Next ==
    \/ \E p \in SubmitProcs, v \in SupplierIds : \E C \in SubmitMenuOf(v) :
           SubmitValidate(p, v, C)
    \/ \E p \in ReviewProcs, rid \in 1..MaxOps, a \in ReviewActions :
           ReviewRead(p, rid, a, ReviewNotesOf(p))
    \/ Continue
    \/ \E p \in ReviewProcs : ReviewApplyNotApproved(p)
    \/ Return

Spec == Init /\ [][Next]_vars

\* No handler is running.
Quiescent ==
    /\ \A p \in SubmitProcs : Free(sub[p].pc)
    /\ \A p \in ReviewProcs : Free(rev[p].pc)

\* One request at a time: a handler starts only when no other one runs.
SubmitValidateAlone(p, v, C) ==
    /\ Quiescent
    /\ SubmitValidate(p, v, C)

ReviewReadAlone(p, rid, action, notes) ==
    /\ Quiescent
    /\ ReviewRead(p, rid, action, notes)

NextSeq ==
    \/ \E p \in SubmitProcs, v \in SupplierIds : \E C \in SubmitMenuOf(v) :
           SubmitValidateAlone(p, v, C)
    \/ \E p \in ReviewProcs, rid \in 1..MaxOps, a \in ReviewActions :
           ReviewReadAlone(p, rid, a, ReviewNotesOf(p))
    \/ Continue
    \/ Return

SpecSeq == Init /\ [][NextSeq]_vars

\* Lines 78-90 when the record that get_supplier_by_id returns does not
\* carry the approval-required field named missing: the handler goes on
\* with the record it got.
SubmitReadWithout(p, missing) ==
    /\ NoneDone
    /\ sub[p].pc = "read"
    /\ missing \in DOMAIN sub[p].categorized.approval_required
    /\ sub' = [sub EXCEPT
                  ![p].current_supplier =
                      Restrict(suppliers[sub[p].supplier_id],
                               Columns \ {missing}),
                  ![p].pc = IF DOMAIN sub[p].categorized.direct # {}
                            THEN "direct" ELSE "cancel"]
    /\ UNCHANGED <<suppliers, requests, rev, applied, started>>

\* One request at a time, with vendor records that may lack a requested
\* approval-required field when the submission reads them.
NextSparse ==
    \/ \E p \in SubmitProcs, v \in SupplierIds : \E C \in SubmitMenuOf(v) :
           SubmitValidateAlone(p, v, C)
    \/ \E p \in ReviewProcs, rid \in 1..MaxOps, a \in ReviewActions :
           ReviewReadAlone(p, rid, a, ReviewNotesOf(p))
    \/ \E p \in SubmitProcs, f \in ApprovalFieldsCarried :
           SubmitReadWithout(p, f)
    \/ Continue
    \/ Return

SpecSparse == Init /\ [][NextSparse]_vars

\* The validation functions applied to every change-set of PureChangeSets.
ValidatePure(C) ==
    /\ Quiescent
    /\ SubmitValidate("s1", "v1", C)

NextPure == \E C \in PureChangeSets : ValidatePure(C)

SpecPure == Init /\ [][NextPure]_vars

\* ------------------------------------------------------------------------
\* Properties
\* ------------------------------------------------------------------------

\* The approval-required columns carried by a suppliers row.
ApprovalColumns == APPROVAL_REQUIRED_FIELDS \cap Columns

\* The keys of a change-set that the classifier makes READ_ONLY.
ReadOnlyKeys(C) == {f \in DOMAIN C : get_field_permission(f) = READ_ONLY}

\* The requests of supplier v.
RequestsOf(v) == {i \in RequestIds : requests[i].supplier_id = v}

\* C1: an approval-required column of a live row changes only in the apply
\* step of a review of a request of that supplier that is APPROVED with a
\* reviewer recorded, and the new value is the one in the request's
\* requested_changes; no step of a submission changes such a column.
C1_ApprovalFieldsChangeOnlyByApply ==
    [][\A v \in SupplierIds, f \in ApprovalColumns :
          suppliers'[v][f] # suppliers[v][f] =>
              /\ sub' = sub
              /\ \E p \in ReviewProcs :
                    /\ rev[p].pc = "apply"
                    /\ rev'[p].pc = "done"
                    /\ rev[p].request_id \in applied'
                    /\ LET r == requests[rev[p].request_id]
                       IN  /\ r.supplier_id = v
                           /\ r.status = "APPROVED"
                           /\ r.reviewed_by \in ReviewProcs
                           /\ f \in DOMAIN r.requested_changes
                           /\ suppliers'[v][f] = r.requested_changes[f]]_vars

\* C1 witness: an applied request has put its requested company name on the
\* live row while a later request of the same supplier for another company
\* name is PENDING and not on the live row.
C1_Witness ==
    \E i \in applied, j \in RequestIds :
        /\ requests[i].supplier_id = requests[j].supplier_id
        /\ requests[j].status = "PENDING"
        /\ suppliers[requests[i].supplier_id]["company_name"]
               = requests[i].requested_changes["company_name"]
        /\ requests[j].requested_changes["company_name"]
               # suppliers[requests[j].supplier_id]["company_name"]

\* C2: a submission whose change-set has a READ_ONLY key ends in its
\* validation step with the 400 read-only error that names exactly the
\* READ_ONLY keys, that step leaves the suppliers and the requests as they
\* are, and such a submission never reaches a step that calls the store.
C2_ReadOnlySubmissionWritesNothing ==
    /\ [](\A p \in SubmitProcs :
             ReadOnlyKeys(sub[p].requested_changes) # {}
                 => sub[p].pc = "done")
    /\ [][\A p \in SubmitProcs :
             (/\ sub[p].pc = "idle"
              /\ sub'[p].pc # "idle"
              /\ ReadOnlyKeys(sub'[p].requested_changes) # {})
             => /\ sub'[p].pc = "done"
                /\ sub'[p].response.status_code = HTTP_400_BAD_REQUEST
                /\ sub'[p].response.detail = ReadOnlyFieldError
                /\ sub'[p].response.fields
                       = ReadOnlyKeys(sub'[p].requested_changes)
                /\ suppliers' = suppliers
                /\ requests' = requests]_vars

\* C2 witness: a change-set with a DIRECT, an APPROVAL_REQUIRED and a
\* READ_ONLY key was refused with the read-only error while the vendor has a
\* PENDING request, which is still PENDING, and the phone column still
\* holds its initial value.
C2_Witness ==
    \E p \in SubmitProcs :
        /\ sub[p].pc = "done"
        /\ sub[p].response.detail = ReadOnlyFieldError
        /\ sub[p].response.fields = {"status"}
        /\ DOMAIN sub[p].categorized.direct # {}
        /\ DOMAIN sub[p].categorized.approval_required # {}
        /\ suppliers[sub[p].supplier_id]["phone"] = InitialValue
        /\ \E i \in RequestsOf(sub[p].supplier_id) :
               requests[i].status = "PENDING"

\* C3: every key of a submitted change-set is classified DIRECT exactly
\* when it is in DIRECT_UPDATE_FIELDS, APPROVAL_REQUIRED exactly when it is
\* in APPROVAL_REQUIRED_FIELDS, and READ_ONLY otherwise; a name in no set is
\* READ_ONLY and is rejected.
C3_ClassificationFailsClosed ==
    \A p \in SubmitProcs : \A f \in DOMAIN sub[p].requested_changes :
        /\ get_field_permission(f) = DIRECT <=> f \in DIRECT_UPDATE_FIELDS
        /\ get_field_permission(f) = APPROVAL_REQUIRED
               <=> f \in APPROVAL_REQUIRED_FIELDS
        /\ get_field_permission(f) = READ_ONLY
               <=> f \notin DIRECT_UPDATE_FIELDS \cup APPROVAL_REQUIRED_FIELDS
        /\ f \in UnknownFields => f \in DOMAIN sub[p].categorized.rejected

\* C3 witness: a change-set with a name that is in no set and a DIRECT name
\* was validated, and the unlisted name is the one the error names.
C3_Witness ==
    \E p \in SubmitProcs :
        /\ sub[p].pc = "done"
        /\ sub[p].response.detail = ReadOnlyFieldError
        /\ sub[p].response.fields \subseteq UnknownFields
        /\ sub[p].response.fields # {}
        /\ DOMAIN sub[p].categorized.direct # {}

\* C4: the three static sets are pairwise disjoint, and every key of a
\* submitted change-set lies in at most one of them.
C4_SetsPairwiseDisjoint ==
    /\ DIRECT_UPDATE_FIELDS \cap APPROVAL_REQUIRED_FIELDS = {}
    /\ DIRECT_UPDATE_FIELDS \cap READ_ONLY_FIELDS = {}
    /\ APPROVAL_REQUIRED_FIELDS \cap READ_ONLY_FIELDS = {}
    /\ \A p \in SubmitProcs : \A f \in DOMAIN sub[p].requested_changes :
           Cardinality({S \in {DIRECT_UPDATE_FIELDS, APPROVAL_REQUIRED_FIELDS,
                               READ_ONLY_FIELDS} : f \in S}) <= 1

\* C4 witness: a validated change-set has a key of the approval-required set
\* and a key of the read-only set.
C4_Witness ==
    \E p \in SubmitProcs :
        /\ sub[p].pc = "done"
        /\ DOMAIN sub[p].requested_changes \cap APPROVAL_REQUIRED_FIELDS # {}
        /\ DOMAIN sub[p].requested_changes \cap READ_ONLY_FIELDS # {}

\* C5: the three outputs of the separation of a submitted change-set C have
\* pairwise disjoint key sets whose union is the key set of C, every key
\* carries the value submitted for it, and it lies in the output its
\* classification names; without READ_ONLY key, direct and
\* approval_required together are C.
C5_SeparationIsPartition ==
    \A p \in SubmitProcs :
        sub[p].pc # "idle" =>
            LET C == sub[p].requested_changes
                d == sub[p].categorized.direct
                a == sub[p].categorized.approval_required
                r == sub[p].categorized.rejected
            IN  /\ DOMAIN d \cup DOMAIN a \cup DOMAIN r = DOMAIN C
                /\ DOMAIN d \cap DOMAIN a = {}
                /\ DOMAIN d \cap DOMAIN r = {}
                /\ DOMAIN a \cap DOMAIN r = {}
                /\ \A f \in DOMAIN d :
                       d[f] = C[f] /\ get_field_permission(f) = DIRECT
                /\ \A f \in DOMAIN a :
                       a[f] = C[f]
                       /\ get_field_permission(f) = APPROVAL_REQUIRED
                /\ \A f \in DOMAIN r :
                       r[f] = C[f] /\ get_field_permission(f) = READ_ONLY
                /\ ReadOnlyKeys(C) = {} => d @@ a = C

\* C5 witness: a separated change-set has a key in "direct" and a key in
\* "approval_required" and none in "rejected".
C5_Witness ==
    \E p \in SubmitProcs :
        /\ sub[p].pc = "read"
        /\ DOMAIN sub[p].categorized.direct # {}
        /\ DOMAIN sub[p].categorized.approval_required # {}

\* C6 as stated: whenever the direct and the approval_required part of a
\* submitted change-set are both empty, the validation fails with the
\* empty-submission error.
C6_EmptyPartsGiveEmptyError ==
    \A p \in SubmitProcs :
        (/\ sub[p].pc # "idle"
         /\ DOMAIN sub[p].categorized.direct = {}
         /\ DOMAIN sub[p].categorized.approval_required = {})
        => /\ sub[p].pc = "done"
           /\ sub[p].response.status_code = HTTP_400_BAD_REQUEST
           /\ sub[p].response.detail = EmptySubmissionError

\* C6 amended: when the direct and the approval_required part are both
\* empty, the validation fails; it fails with the empty-submission error
\* exactly when the change-set is empty, and with the read-only error that
\* names all its keys when the change-set has keys, all of which are then
\* READ_ONLY or unrecognized.
C6_EmptyChangeSetGivesEmptyError ==
    \A p \in SubmitProcs :
        (/\ sub[p].pc # "idle"
         /\ DOMAIN sub[p].categorized.direct = {}
         /\ DOMAIN sub[p].categorized.approval_required = {})
        => /\ sub[p].pc = "done"
           /\ sub[p].response.status_code = HTTP_400_BAD_REQUEST
           /\ IF DOMAIN sub[p].requested_changes = {}
              THEN /\ sub[p].response.detail = EmptySubmissionError
                   /\ sub[p].response.fields = {}
              ELSE /\ sub[p].response.detail = ReadOnlyFieldError
                   /\ sub[p].response.fields = DOMAIN sub[p].requested_changes

\* C6 witness: the empty change-set was refused with the empty-submission
\* error.
C6_Witness ==
    \E p \in SubmitProcs :
        /\ sub[p].pc = "done"
        /\ sub[p].requested_changes = EmptyDict
        /\ sub[p].response.detail = EmptySubmissionError

\* No review has left a trace on a request of supplier v: none is APPROVED
\* or REJECTED and none carries a reviewer or a review time.
NoReviewOf(v) ==
    \A i \in RequestsOf(v) :
        /\ requests[i].status \in {"PENDING", "CANCELLED"}
        /\ requests[i].reviewed_by = NULL
        /\ requests[i].reviewed_at = NULL

\* C7: with one handler at a time, when a submission with approval-required
\* keys has succeeded and no review has left a trace on a request of its
\* supplier, the request it created is the newest request of the supplier
\* and PENDING, and every other request of the supplier is CANCELLED.
C7_SequentialSubmissionsLeaveOnePending ==
    \A p \in SubmitProcs :
        (/\ sub[p].pc = "done"
         /\ sub[p].response.status_code = HTTP_200_OK
         /\ sub[p].response.approval_required_fields # {}
         /\ NoReviewOf(sub[p].supplier_id))
        => LET ids == RequestsOf(sub[p].supplier_id)
               new == sub[p].response.change_request_id
           IN  /\ sub[p].response.approval_request_created
               /\ new \in ids
               /\ \A i \in ids : i <= new
               /\ requests[new].status = "PENDING"
               /\ \A i \in ids \ {new} : requests[i].status = "CANCELLED"

\* C7 witness: a second successful submission with approval-required keys
\* of a supplier has returned; no request of the supplier was reviewed.
C7_Witness ==
    \E p \in SubmitProcs :
        /\ sub[p].pc = "done"
        /\ sub[p].response.approval_request_created
        /\ NoReviewOf(sub[p].supplier_id)
        /\ Cardinality(RequestsOf(sub[p].supplier_id)) >= 2
        /\ \E i \in RequestsOf(sub[p].supplier_id) :
               requests[i].status = "CANCELLED"

\* C8 as stated: in every reachable state each supplier has at most one
\* PENDING request.
C8_AtMostOnePendingPerVendor ==
    \A v \in SupplierIds :
        Cardinality({i \in RequestsOf(v) : requests[i].status = "PENDING"})
            <= 1

\* C9: a review that finds its request in a status other than PENDING ends
\* in its read step with the 400 invalid-state error, and that step leaves
\* every request and every live row as it is.
C9_ReviewOfResolvedRequestChangesNothing ==
    [][\A p \in ReviewProcs :
          (/\ rev[p].pc = "idle"
           /\ rev'[p].pc # "idle"
           /\ requests[rev'[p].request_id].status # "PENDING")
          => /\ rev'[p].pc = "done"
             /\ rev'[p].response.status_code = HTTP_400_BAD_REQUEST
             /\ rev'[p].response.detail = InvalidStateError
             /\ requests' = requests
             /\ suppliers' = suppliers
             /\ applied' = applied]_vars

\* C9 witness: an approval of a REJECTED request was refused with the
\* invalid-state error and the request is still REJECTED.
C9_Witness ==
    \E p \in ReviewProcs :
        /\ rev[p].pc = "done"
        /\ rev[p].action = "approve"
        /\ rev[p].response.detail = InvalidStateError
        /\ requests[rev[p].request_id].status = "REJECTED"

\* C10 as stated: no request goes from APPROVED to REJECTED or from REJECTED
\* to APPROVED, and a request whose changes were applied is never REJECTED.
C10_ReviewedAtMostOnce ==
    [][\A i \in RequestIds :
          /\ ~(requests[i].status = "APPROVED"
               /\ requests'[i].status = "REJECTED")
          /\ ~(requests[i].status = "REJECTED"
               /\ requests'[i].status = "APPROVED")
          /\ i \in applied' => requests'[i].status # "REJECTED"]_vars

\* C11 as stated: when the apply step of a review finds its request in a
\* status other than APPROVED, it fails with the not-approved error, and
\* from that step until the review returns this review writes nothing to
\* the live rows and nothing to the requests.
C11_ApplyOfNotApprovedWritesNothing ==
    [][\A p \in ReviewProcs :
          LET refused == /\ rev[p].pc = "apply"
                         /\ ~CanApply(requests[rev[p].request_id])
              failing == /\ rev[p].pc = "rollback"
                         /\ rev[p].apply_error = NotApprovedError
          IN  ((refused \/ failing) /\ rev'[p] # rev[p])
              => /\ refused => rev'[p].apply_error = NotApprovedError
                 /\ suppliers' = suppliers
                 /\ requests' = requests
                 /\ applied' = applied]_vars

\* C12: when the apply step of an approval succeeds, the request is
\* APPROVED before and after the step, and after the step the live row of the request's supplier holds the requested value
\* for every key of requested_changes, whatever the row or the
\* current_values snapshot held; the other columns keep their values.
C12_ApprovedChangesAreOnLiveRecord ==
    [][\A p \in ReviewProcs :
          (rev[p].pc = "apply" /\ rev'[p].pc = "done")
          => LET r == requests[rev[p].request_id]
                 v == r.supplier_id
             IN  /\ rev[p].action = "approve"
                 /\ r.status = "APPROVED"
                 /\ requests'[rev[p].request_id].status = "APPROVED"
                 /\ \A f \in DOMAIN r.requested_changes :
                        suppliers'[v][f] = r.requested_changes[f]
                 /\ \A f \in Columns \ DOMAIN r.requested_changes :
                        suppliers'[v][f] = suppliers[v][f]]_vars

\* C12 witness: an approval has answered 200 for a request that asks for a
\* new company name and a new business category; both are on the live row
\* and differ from the snapshot in current_values.
C12_Witness ==
    \E p \in ReviewProcs :
        /\ rev[p].pc = "done"
        /\ rev[p].action = "approve"
        /\ rev[p].response.status_code = HTTP_200_OK
        /\ LET r == requests[rev[p].request_id]
           IN  /\ r.status = "APPROVED"
               /\ DOMAIN r.requested_changes
                      = {"company_name", "business_category"}
               /\ \A f \in DOMAIN r.requested_changes :
                      /\ suppliers[r.supplier_id][f] = r.requested_changes[f]
                      /\ r.current_values[f] # r.requested_changes[f]

\* C13 as stated: when a review returns after the write of its apply step
\* failed, it answers with an error, its request is PENDING, and the
\* request's reviewer, review time and review notes are null.
C13_FailedApplyLeavesRequestPending ==
    \A p \in ReviewProcs :
        (rev[p].pc = "done" /\ rev[p].apply_error = WriteFailed)
        => LET r == requests[rev[p].request_id]
           IN  /\ rev[p].response.status_code = HTTP_500_INTERNAL_SERVER_ERROR
               /\ r.status = "PENDING"
               /\ r.reviewed_by = NULL
               /\ r.reviewed_at = NULL
               /\ r.review_notes = NULL

\* C14: a review whose apply step fails writes nothing to the live rows:
\* the step at which the apply call raises and every later step of that
\* review, up to and including its return, leave all live rows as they
\* are, the rows' approval-required columns included, and the request is
\* not recorded as applied by them.
C14_FailedApplyWritesNoField ==
    [][\A p \in ReviewProcs :
          (/\ rev'[p] # rev[p]
           /\ \/ rev[p].pc = "apply" /\ rev'[p].pc = "rollback"
              \/ rev[p].pc = "rollback"
              \/ rev[p].pc = "done" /\ rev[p].apply_error # NULL)
          => /\ suppliers' = suppliers
             /\ applied' = applied]_vars

\* C14 witness: a review of a request for a new company name and a new
\* business category has returned its apply failure; the live row of the
\* supplier still holds the snapshot value in both columns.
C14_Witness ==
    \E p \in ReviewProcs :
        /\ rev[p].pc = "done"
        /\ rev[p].apply_error = WriteFailed
        /\ rev[p].response.detail = ApplyFailed
        /\ LET r == requests[rev[p].request_id]
           IN  /\ DOMAIN r.requested_changes
                      = {"company_name", "business_category"}
               /\ \A f \in DOMAIN r.requested_changes :
                      /\ suppliers[r.supplier_id][f] = r.current_values[f]
                      /\ suppliers[r.supplier_id][f] # r.requested_changes[f]

\* C15: a rejection never reaches the apply step or its rollback, no step
\* of a rejection changes a live row or applies a request, and the step in
\* which a rejection succeeds sets its request to REJECTED and records the
\* reviewer, the review time and the notes given.
C15_RejectRecordsReviewAndKeepsLiveRecord ==
    /\ [](\A p \in ReviewProcs :
             rev[p].action = "reject"
                 => rev[p].pc \in {"update", "done"})
    /\ [][\A p \in ReviewProcs :
             (rev'[p] # rev[p]
              /\ (rev[p].action = "reject" \/ rev'[p].action = "reject"))
             => /\ suppliers' = suppliers
                /\ applied' = applied
                /\ (/\ rev[p].pc = "update"
                    /\ rev'[p].response.status_code = HTTP_200_OK)
                   => LET r == requests'[rev[p].request_id]
                      IN  /\ r.status = "REJECTED"
                          /\ r.reviewed_by = p
                          /\ r.reviewed_at = Now
                          /\ r.review_notes = rev[p].review_notes
                          /\ \A i \in RequestIds \ {rev[p].request_id} :
                                 requests'[i] = requests[i]]_vars

\* C15 witness: a rejection with notes has answered 200; the request is
\* REJECTED with the reviewer, the time and the notes, it was not applied,
\* and the live row holds the snapshot value, not the requested one, in
\* every requested column.
C15_Witness ==
    \E p \in ReviewProcs :
        /\ rev[p].pc = "done"
        /\ rev[p].action = "reject"
        /\ rev[p].response.status_code = HTTP_200_OK
        /\ rev[p].request_id \notin applied
        /\ LET r == requests[rev[p].request_id]
           IN  /\ r.status = "REJECTED"
               /\ r.reviewed_by = p
               /\ r.reviewed_at = Now
               /\ r.review_notes = "note"
               /\ Cardinality(DOMAIN r.requested_changes) = 2
               /\ \A f \in DOMAIN r.requested_changes :
                      /\ suppliers[r.supplier_id][f] = r.current_values[f]
                      /\ suppliers[r.supplier_id][f] # r.requested_changes[f]

\* The keys of a change-set that are in the given static set.
KeysIn(C, S) == DOMAIN C \cap S

\* C16: with one handler at a time, when a submission has succeeded, its
\* change-set C has no READ_ONLY key and at least one key, every DIRECT key
\* of C holds its submitted value on the live row, and the response
\* reports the number of DIRECT keys, the DIRECT keys, the
\* APPROVAL_REQUIRED keys, approval_request_created exactly when C has an
\* APPROVAL_REQUIRED key, and as change_request_id the newest request,
\* which is PENDING, belongs to the supplier and asks for the
\* approval-required part of C, or no id when nothing was created.
C16_SubmitResponseAndDirectWrites ==
    \A p \in SubmitProcs :
        (sub[p].pc = "done" /\ sub[p].response.status_code = HTTP_200_OK)
        => LET C == sub[p].requested_changes
               v == sub[p].supplier_id
               r == sub[p].response
               d == KeysIn(C, DIRECT_UPDATE_FIELDS)
               a == KeysIn(C, APPROVAL_REQUIRED_FIELDS)
           IN  /\ ReadOnlyKeys(C) = {}
               /\ DOMAIN C # {}
               /\ \A f \in d : suppliers[v][f] = C[f]
               /\ r.direct_updates_applied = Cardinality(d)
               /\ r.direct_fields = d
               /\ r.approval_required_fields = a
               /\ r.approval_request_created <=> a # {}
               /\ IF a # {}
                  THEN /\ r.change_request_id = Len(requests)
                       /\ r.change_request_id \in RequestsOf(v)
                       /\ requests[r.change_request_id].status = "PENDING"
                       /\ requests[r.change_request_id].requested_changes
                              = Restrict(C, a)
                  ELSE r.change_request_id = 0

\* C16 witness: a submission with one DIRECT and two APPROVAL_REQUIRED keys
\* has succeeded for a supplier who had a request before; the phone is on
\* the live row and the company name is not.
C16_Witness ==
    \E p \in SubmitProcs :
        /\ sub[p].pc = "done"
        /\ sub[p].response.status_code = HTTP_200_OK
        /\ sub[p].response.direct_updates_applied = 1
        /\ sub[p].response.direct_fields = {"phone"}
        /\ Cardinality(sub[p].response.approval_required_fields) = 2
        /\ sub[p].response.change_request_id = 2
        /\ RequestsOf(sub[p].supplier_id) = {1, 2}
        /\ suppliers[sub[p].supplier_id]["phone"]
               = sub[p].requested_changes["phone"]
        /\ suppliers[sub[p].supplier_id]["company_name"]
               # sub[p].requested_changes["company_name"]

\* The PENDING requests of supplier v.
PendingOf(v) == {i \in RequestsOf(v) : requests[i].status = "PENDING"}

\* C17: in every reachable state and for every supplier, the pending query
\* yields at most one row; the handler returns nothing when the supplier
\* has no PENDING request, and otherwise the most recently created PENDING
\* request of that supplier, so never a request of another supplier or one
\* that is APPROVED, REJECTED or CANCELLED.
C17_PendingQueryReturnsNewestPending ==
    \A v \in SupplierIds :
        LET res == get_vendor_pending_request(requests, v)
        IN  /\ Len(PendingQuery(requests, v)) <= 1
            /\ PendingOf(v) = {} => res = 0
            /\ PendingOf(v) # {}
                   => /\ res \in RequestIds
                      /\ requests[res].supplier_id = v
                      /\ requests[res].status = "PENDING"
                      /\ \A i \in PendingOf(v) : i <= res

\* C17 witness: a supplier has an older PENDING request, a newer PENDING
\* request and a request that is not PENDING, and the handler returns the
\* newer PENDING one; another supplier has no request and gets nothing.
C17_Witness ==
    \E v, w \in SupplierIds :
        /\ Cardinality(PendingOf(v)) = 2
        /\ RequestsOf(v) \ PendingOf(v) # {}
        /\ get_vendor_pending_request(requests, v) \in PendingOf(v)
        /\ \E i \in PendingOf(v) : i < get_vendor_pending_request(requests, v)
        /\ RequestsOf(w) = {}
        /\ get_vendor_pending_request(requests, w) = 0

\* The list h holds the n most recently created requests of supplier v,
\* whatever their status, from the newest to the oldest.
IsHistoryOf(h, v, n) ==
    /\ Len(h) = n
    /\ \A k \in 1..Len(h) : h[k] \in RequestsOf(v)
    /\ \A k \in 1..(Len(h) - 1) : h[k] > h[k + 1]
    /\ \A i \in RequestsOf(v) :
           \/ \E k \in 1..Len(h) : h[k] = i
           \/ \A k \in 1..Len(h) : i < h[k]

C19_NotificationIsBestEffort ==
    [][\A p \in SubmitProcs :
          (sub[p].pc = "notify" /\ sub'[p] # sub[p])
          => /\ sub'[p].pc = "done"
             /\ sub'[p].email \in EmailOutcomes
             /\ sub'[p].response.status_code = HTTP_200_OK
             /\ sub'[p].response.approval_request_created
             /\ sub'[p].response.change_request_id = sub[p].change_request_id
             /\ sub'[p].response.direct_updates_applied
                    = sub[p].direct_updates_applied
             /\ requests' = requests
             /\ suppliers' = suppliers]_vars

\* C19 witness: a submission whose notification failed has answered 200;
\* its request is PENDING, the request it superseded is CANCELLED and its
\* phone number is on the live row.
C19_Witness ==
    \E p \in SubmitProcs :
        /\ sub[p].pc = "done"
        /\ sub[p].email = "failed"
        /\ sub[p].response.status_code = HTTP_200_OK
        /\ sub[p].response.direct_updates_applied = 1
        /\ requests[sub[p].response.change_request_id].status = "PENDING"
        /\ \E i \in RequestsOf(sub[p].supplier_id) :
               requests[i].status = "CANCELLED"
        /\ suppliers[sub[p].supplier_id]["phone"]
               = sub[p].requested_changes["phone"]

C21_SnapshotIsLiveAtInsert ==
    [][Len(requests') = Len(requests) + 1
          => LET r == requests'[Len(requests')]
             IN  \A f \in DOMAIN r.current_values :
                     r.current_values[f] = suppliers[r.supplier_id][f]]_vars

\* C22: in every reachable state the keys of every request's
\* requested_changes are a non-empty subset of APPROVAL_REQUIRED_FIELDS; the
\* step that inserts a request inserts it PENDING, unreviewed, for the
\* submitting supplier and with exactly the approval-required part of the
\* submitted change-set; and no step of a submission without
\* approval-required key changes the requests.
C22_RequestsHoldApprovalPart ==
    /\ [](\A i \in RequestIds :
             /\ DOMAIN requests[i].requested_changes # {}
             /\ DOMAIN requests[i].requested_changes
                    \subseteq APPROVAL_REQUIRED_FIELDS)
    /\ [][\A p \in SubmitProcs :
             sub'[p] # sub[p]
             => /\ (sub[p].pc = "insert" /\ sub'[p].pc = "notify")
                   => LET r == requests'[Len(requests')]
                          C == sub[p].requested_changes
                      IN  /\ Len(requests') = Len(requests) + 1
                          /\ r.status = "PENDING"
                          /\ r.supplier_id = sub[p].supplier_id
                          /\ r.reviewed_by = NULL
                          /\ r.requested_changes
                                 = Restrict(C, KeysIn(C, APPROVAL_REQUIRED_FIELDS))
                /\ KeysIn(sub'[p].requested_changes,
                          APPROVAL_REQUIRED_FIELDS) = {}
                   => requests' = requests]_vars

\* C22 witness: a submission with only a DIRECT key has answered 200 without
\* creating a request while its supplier has a PENDING request.
C22_Witness ==
    \E p \in SubmitProcs :
        /\ sub[p].pc = "done"
        /\ sub[p].response.status_code = HTTP_200_OK
        /\ sub[p].response.direct_updates_applied = 1
        /\ ~sub[p].response.approval_request_created
        /\ DOMAIN sub[p].requested_changes \subseteq DIRECT_UPDATE_FIELDS
        /\ PendingOf(sub[p].supplier_id) # {}

\* C23 as stated: a request that is CANCELLED stays CANCELLED in every
\* step, so that it is never approved and its requested_changes never reach
\* the apply step.
C23_CancelledIsTerminal ==
    [][\A i \in RequestIds :
          requests[i].status = "CANCELLED"
              => requests'[i].status = "CANCELLED"]_vars

\* C24 as stated: a request that is REJECTED stays REJECTED in every step;
\* in particular no rollback step sets a REJECTED request to PENDING.
C24_RejectedIsTerminal ==
    [][\A i \in RequestIds :
          requests[i].status = "REJECTED"
              => requests'[i].status = "REJECTED"]_vars

\* C25 as stated: in every state in which no review is running, every
\* APPROVED request has been applied by a successful apply step, and every
\* review whose apply failed has left its request PENDING.
C25_NoApprovedButNotApplied ==
    (\A p \in ReviewProcs : Free(rev[p].pc))
    => \A i \in RequestIds :
           requests[i].status = "APPROVED" => i \in applied

C27_WritersTouchDisjointFields ==
    [][\A v \in SupplierIds, f \in Columns :
          suppliers'[v][f] # suppliers[v][f]
          => /\ \A p \in SubmitProcs :
                    sub'[p] # sub[p]
                    => /\ sub[p].pc = "direct"
                       /\ sub[p].supplier_id = v
                       /\ f \in DOMAIN sub[p].requested_changes
                       /\ get_field_permission(f) = DIRECT
                       /\ suppliers'[v][f] = sub[p].requested_changes[f]
             /\ \A p \in ReviewProcs :
                    rev'[p] # rev[p]
                    => LET r == requests[rev[p].request_id]
                       IN  /\ rev[p].pc = "apply"
                           /\ r.supplier_id = v
                           /\ f \in DOMAIN r.requested_changes
                           /\ get_field_permission(f) = APPROVAL_REQUIRED
                           /\ suppliers'[v][f] = r.requested_changes[f]]_vars

\* C27 witness: on one live row an apply has written the company name and
\* the direct step of a later submission, which also asks for a company
\* name, has written the phone number; the company name is still the
\* applied one, and the business category and the status hold their
\* initial values.
C27_Witness ==
    \E p \in SubmitProcs, i \in applied :
        /\ sub[p].pc = "cancel"
        /\ sub[p].direct_updates_applied = 1
        /\ requests[i].supplier_id = sub[p].supplier_id
        /\ LET row == suppliers[sub[p].supplier_id]
           IN  /\ row["phone"] = sub[p].requested_changes["phone"]
               /\ row["company_name"]
                      = requests[i].requested_changes["company_name"]
               /\ row["company_name"]
                      # sub[p].requested_changes["company_name"]
               /\ row["business_category"] = InitialValue
               /\ row["status"] = InitialValue

\* C28: in every reachable state, with or without a review in progress, a
\* PENDING request has no reviewer, no review time and no review notes, and
\* an APPROVED or REJECTED request has a reviewer and a review time.
C28_ReviewColumnsFollowStatus ==
    \A i \in RequestIds :
        /\ requests[i].status = "PENDING"
               => /\ requests[i].reviewed_by = NULL
                  /\ requests[i].reviewed_at = NULL
                  /\ requests[i].review_notes = NULL
        /\ requests[i].status \in {"APPROVED", "REJECTED"}
               => /\ requests[i].reviewed_by # NULL
                  /\ requests[i].reviewed_at # NULL

\* C28 witness: an approval with notes has ended with the rollback of its
\* failed apply and no other review is running; its request is PENDING
\* without reviewer, review time and notes.
C28_Witness ==
    \E p \in ReviewProcs :
        /\ rev[p].pc = "done"
        /\ rev[p].response.detail = ApplyFailed
        /\ rev[p].review_notes = "note"
        /\ \A q \in ReviewProcs \ {p} : Free(rev[q].pc)
        /\ LET r == requests[rev[p].request_id]
           IN  /\ r.status = "PENDING"
               /\ r.reviewed_by = NULL
               /\ r.reviewed_at = NULL
               /\ r.review_notes = NULL

\* C29 as stated: with one handler at a time, when a store call of a
\* submission fails, the submission has written no DIRECT key, and if the
\* failing call comes after the cancel call, the newest request of the
\* supplier is not a CANCELLED one: the request that was PENDING before the
\* submission is still PENDING.
C29_FailedSubmitHasNoEffect ==
    [][\A p \in SubmitProcs :
          (/\ sub'[p].pc = "done"
           /\ sub[p].pc # "done"
           /\ sub'[p].response.status_code = HTTP_500_INTERNAL_SERVER_ERROR)
          => /\ sub[p].direct_updates_applied = 0
             /\ sub[p].pc = "insert"
                => \A i \in RequestsOf(sub[p].supplier_id) :
                       \/ requests[i].status # "CANCELLED"
                       \/ \E j \in RequestsOf(sub[p].supplier_id) : j > i]_vars

\* C30: a step of a submission of one supplier, and a step of a review of
\* a request of one supplier, leave the live row and every request of every
\* other supplier as they are; and the cancel step of a submission changes
\* only requests of its supplier that are PENDING, and only their status,
\* to CANCELLED.
C30_VendorsAreIsolated ==
    [][/\ \A p \in SubmitProcs :
             sub'[p] # sub[p]
             => LET v == IF sub[p].pc = "idle" THEN sub'[p].supplier_id
                         ELSE sub[p].supplier_id
                IN  /\ \A w \in SupplierIds \ {v} :
                           suppliers'[w] = suppliers[w]
                    /\ \A i \in RequestIds :
                           requests'[i] # requests[i]
                           => /\ requests[i].supplier_id = v
                              /\ requests[i].status = "PENDING"
                              /\ requests'[i]
                                     = [requests[i] EXCEPT
                                           !.status = "CANCELLED"]
       /\ \A p \in ReviewProcs :
             (rev'[p] # rev[p] /\ rev[p].pc # "idle")
             => LET v == requests[rev[p].request_id].supplier_id
                IN  /\ \A w \in SupplierIds \ {v} :
                           suppliers'[w] = suppliers[w]
                    /\ \A i \in RequestIds :
                           requests'[i] # requests[i]
                           => i = rev[p].request_id]_vars

\* C30 witness: a supplier's second submission has written its phone
\* number and superseded its first request, while the other supplier's
\* request is still PENDING and the other supplier's live row holds its
\* initial values.
C30_Witness ==
    \E p \in SubmitProcs, w \in SupplierIds :
        /\ sub[p].pc = "done"
        /\ sub[p].response.status_code = HTTP_200_OK
        /\ sub[p].response.direct_updates_applied = 1
        /\ w # sub[p].supplier_id
        /\ \E i \in RequestsOf(sub[p].supplier_id) :
               requests[i].status = "CANCELLED"
        /\ PendingOf(w) # {}
        /\ \A f \in Columns : suppliers[w][f] = InitialValue

====
